---- MODULE Spec2Model ----
(***************************************************************************)
(* Model of the weekend-planner service: the restaurant ranker and the    *)
(* search of tools/places.py, the one-shot output post-processing, the     *)
(* cached executor and the tool callbacks of agent.py, the handlers and    *)
(* the request middleware of main.py, and the tools that call third-party  *)
(* APIs (tools/weather.py, geocoding.py, movie.py, events.py).             *)
(*                                                                         *)
(* Python str values are TLC strings (Len, SubSeq and \o act on them       *)
(* character by character).  Scores are floats that are sums of 1.0, 0.5,  *)
(* 1.5 and 2.0; they are kept exactly, counted in units of 0.5.            *)
(***************************************************************************)
EXTENDS Integers, Sequences, FiniteSets, TLC

VARIABLES
    places,       \* the elements search_cuisine returned (places.py:138)
    prefs,        \* prefs of find_best_restaurants (places.py:137)
    scored,       \* the list scored after the sort (places.py:162)
    top_results,  \* the list find_best_restaurants returns (places.py:174)
    pc,           \* which call of the ranker was made last
    text,         \* the argument of _enforce_one_shot_output (agent.py:178)
    out,          \* the value _enforce_one_shot_output returned
    san_pc,       \* "input" before, "done" after that call
    patched,      \* main.run_weekend_planner replaced by a stub (test_main.py:30)
    query,        \* AgentRequest.query (main.py:59)
    verbose,      \* AgentRequest.verbose (main.py:60)
    invoked,      \* what executor.invoke, or the stub, ended in (agent.py:232)
    status,       \* HTTP status of the response, 0 while none was sent
    response,     \* the AgentResponse body of a 200 response (main.py:103)
    to_email,     \* AgentEmailRequest.email (main.py:70)
    email_pc,     \* how far agent_plan_email has come (main.py:106-138)
    plan_output,  \* the local output of agent_plan_email (main.py:127)
    email_tasks,  \* the tasks added to background_tasks (main.py:135)
    inbound,      \* per request: its X-Request-ID header, None when absent
    mw_pc,        \* per request: how far add_request_logging has come
    request_id,   \* per request: the local request_id (main.py:38)
    token,        \* per request: the value the token restores (main.py:39)
    request_id_ctx, \* per request: request_id_ctx in the context of its task
    downstream,   \* per request: what call_next ended in (main.py:43)
    sent,         \* per request: the response the client receives
    records,      \* per request: the log records emitted while serving it
    tool_name,    \* the tool the agent calls (agent.py:132-139)
    api_key,      \* os.getenv of the credential the tool reads
    api_reply,    \* what the tool's HTTP request ends in
    tool_result,  \* what the call of the tool ended in
    cache,        \* the entry lru_cache keeps of get_weekend_planner_executor
    run_verbose,  \* per request: verbose of run_weekend_planner (agent.py:222)
    run_pc,       \* per request: how far run_weekend_planner has come
    executor,     \* per request: the local executor (agent.py:230)
    tool_runs,    \* per request: the number of tool runs started
    starts,       \* per executor: the keys of its handler's _starts (agent.py:41)
    overpass_reply, \* what the request of search_cuisine ends in (places.py:85)
    found         \* what the call of find_best_restaurants ended in

vars == <<places, prefs, scored, top_results, pc, text, out, san_pc,
          patched, query, verbose, invoked, status, response,
          to_email, email_pc, plan_output, email_tasks,
          inbound, mw_pc, request_id, token, request_id_ctx, downstream,
          sent, records, tool_name, api_key, api_reply, tool_result,
          cache, run_verbose, run_pc, executor, tool_runs, starts,
          overpass_reply, found>>

rankVars == <<places, prefs, scored, top_results, pc>>
sanVars == <<text, out, san_pc>>
apiVars == <<patched, query, verbose, invoked, status, response>>
emailVars == <<to_email, email_pc, plan_output, email_tasks>>
\* The variables of the parts of the service written down after the first
\* three.
mwVars == <<inbound, mw_pc, request_id, token, request_id_ctx, downstream,
            sent, records>>
toolVars == <<tool_name, api_key, api_reply, tool_result>>
cbVars == <<cache, run_verbose, run_pc, executor, tool_runs, starts>>
searchVars == <<overpass_reply, found>>
extVars == <<emailVars, mwVars, toolVars, cbVars, searchVars>>

-----------------------------------------------------------------------------
(* Bounds of the model. *)

MaxPlaces == 3
MaxPrefs == 2
MaxCapPlaces == 12
MaxTextLen == 5
MaxAgentTextLen == 3
NumRequests == 2
MaxToolRuns == 2
MaxFound == 2

-----------------------------------------------------------------------------
(* Python str operations. *)

CharAt(s, i) == SubSeq(s, i, i)

\* sub in s
Contains(s, sub) ==
    \E i \in 1..(Len(s) - Len(sub) + 1) : SubSeq(s, i, i + Len(sub) - 1) = sub

\* s.endswith(suffix)
EndsWith(s, suffix) ==
    /\ Len(suffix) <= Len(s)
    /\ SubSeq(s, Len(s) - Len(suffix) + 1, Len(s)) = suffix

\* The lower-case form of each upper-case ASCII letter.
LowerOf ==
    [A |-> "a", B |-> "b", C |-> "c", D |-> "d", E |-> "e", F |-> "f",
     G |-> "g", H |-> "h", I |-> "i", J |-> "j", K |-> "k", L |-> "l",
     M |-> "m", N |-> "n", O |-> "o", P |-> "p", Q |-> "q", R |-> "r",
     S |-> "s", T |-> "t", U |-> "u", V |-> "v", W |-> "w", X |-> "x",
     Y |-> "y", Z |-> "z"]

LowerChar(c) == IF c \in DOMAIN LowerOf THEN LowerOf[c] ELSE c

\* s.lower()
RECURSIVE Lower(_)
Lower(s) ==
    IF s = "" THEN ""
    ELSE LowerChar(CharAt(s, 1)) \o Lower(SubSeq(s, 2, Len(s)))

\* The characters str.strip() and str.rstrip() remove, of those the model uses.
IsSpace(c) == c \in {" ", "\n"}

\* s.rstrip()
RECURSIVE RStrip(_)
RStrip(s) ==
    IF s # "" /\ IsSpace(CharAt(s, Len(s)))
    THEN RStrip(SubSeq(s, 1, Len(s) - 1))
    ELSE s

\* s.lstrip()
RECURSIVE LStrip(_)
LStrip(s) ==
    IF s # "" /\ IsSpace(CharAt(s, 1))
    THEN LStrip(SubSeq(s, 2, Len(s)))
    ELSE s

\* s.strip()
Strip(s) == LStrip(RStrip(s))

-----------------------------------------------------------------------------
(* tools/places.py: score_place.  Scores in units of 0.5. *)

BaseScore == 2        \* score += 1.0
CuisineScore == 1     \* score += 0.5
PrefScore == 3        \* score += 1.5
BrandScore == 4       \* score += 2.0

\* dict.get(key, default)
Get(d, key, default) == IF key \in DOMAIN d THEN d[key] ELSE default

\* Python's None, where a str may stand too.
None == "<None>"

\* keyword_map; its three synonyms written in Chinese characters are
\* transliterated, no name or cuisine of the model contains them.
keyword_map ==
    [spicy |-> <<"sichuan", "szechuan", "chongqing", "spicy">>,
     hotpot |-> <<"hotpot", "hot pot", "huoguo_zh">>,
     noodles |-> <<"noodle", "lamian", "ramen">>,
     dumplings |-> <<"dumpling", "jiaozi", "baozi_zh", "dim sum">>]

brands == <<"din tai fung", "haidilao">>

\* Variant of KeywordLoop: a preference counts once, the loop ends at its
\* first synonym that occurs.
RECURSIVE KeywordLoop_Break(_, _, _, _)
KeywordLoop_Break(kws, j, name, cuisine) ==
    IF j > Len(kws) THEN 0
    ELSE IF Contains(name, kws[j]) \/ Contains(cuisine, kws[j])
         THEN PrefScore
         ELSE KeywordLoop_Break(kws, j + 1, name, cuisine)

\* The inner loop: for kw in keyword_map.get(pref, []), from the j-th synonym on.
RECURSIVE KeywordLoop(_, _, _, _)
KeywordLoop(kws, j, name, cuisine) ==
    IF j > Len(kws) THEN 0
    ELSE (IF Contains(name, kws[j]) \/ Contains(cuisine, kws[j])
          THEN PrefScore ELSE 0)
         + KeywordLoop(kws, j + 1, name, cuisine)

\* The outer loop left after its first pass.
PreferenceLoop_FirstOnly(preferences, i, name, cuisine) ==
    IF i > Len(preferences) THEN 0
    ELSE KeywordLoop(Get(keyword_map, preferences[i], <<>>), 1, name, cuisine)

\* The outer loop: for pref in preferences, from the i-th preference on.
RECURSIVE PreferenceLoop(_, _, _, _)
PreferenceLoop(preferences, i, name, cuisine) ==
    IF i > Len(preferences) THEN 0
    ELSE KeywordLoop(Get(keyword_map, preferences[i], <<>>), 1, name, cuisine)
         + PreferenceLoop(preferences, i + 1, name, cuisine)

score_place(tags, preferences) ==
    LET name == Lower(Get(tags, "name", ""))
        cuisine == Lower(Get(tags, "cuisine", ""))
    IN  (IF "name" \in DOMAIN tags THEN BaseScore ELSE 0)
        + (IF Contains(cuisine, ";") \/ Contains(cuisine, ",")
           THEN CuisineScore ELSE 0)
        + PreferenceLoop(preferences, 1, name, cuisine)
        + (IF \E b \in 1..Len(brands) : Contains(name, brands[b])
           THEN BrandScore ELSE 0)

-----------------------------------------------------------------------------
(* tools/places.py: find_best_restaurants. *)

TopN == 10            \* if len(top_results) >= 10: break

\* place_info, with the fields the ranking reads or that tell records apart;
\* address, opening_hours, website and lon are copied from the element and
\* never read again.
place_info(p, preferences) ==
    LET tags == Get(p, "tags", <<>>)
    IN  [name |-> Get(tags, "name", None),
         cuisine |-> Get(tags, "cuisine", "unknown"),
         score |-> score_place(tags, preferences),
         lat |-> Get(p, "lat", 0)]

\* Variant of ScoreLoop: the elements without a name are scored too.
RECURSIVE ScoreLoop_NoFilter(_, _, _)
ScoreLoop_NoFilter(ps, i, preferences) ==
    IF i > Len(ps) THEN <<>>
    ELSE <<place_info(ps[i], preferences)>>
         \o ScoreLoop_NoFilter(ps, i + 1, preferences)

\* The first loop: skip the elements without a name, score the others.
RECURSIVE ScoreLoop(_, _, _)
ScoreLoop(ps, i, preferences) ==
    IF i > Len(ps) THEN <<>>
    ELSE LET tags == Get(ps[i], "tags", <<>>)
         IN  (IF "name" \notin DOMAIN tags THEN <<>>
              ELSE <<place_info(ps[i], preferences)>>)
             \o ScoreLoop(ps, i + 1, preferences)

\* Variant of InsertDesc: x goes before the elements of its own score.
RECURSIVE InsertDesc_TiesFirst(_, _)
InsertDesc_TiesFirst(sorted, x) ==
    IF sorted = <<>> THEN <<x>>
    ELSE IF Head(sorted).score > x.score
         THEN <<Head(sorted)>> \o InsertDesc_TiesFirst(Tail(sorted), x)
         ELSE <<x>> \o sorted

\* Variant of InsertDesc: the sort without reverse=True.
RECURSIVE InsertAsc(_, _)
InsertAsc(sorted, x) ==
    IF sorted = <<>> THEN <<x>>
    ELSE IF Head(sorted).score <= x.score
         THEN <<Head(sorted)>> \o InsertAsc(Tail(sorted), x)
         ELSE <<x>> \o sorted

\* list.sort(key=score, reverse=True) is stable: x goes behind every element
\* whose score is at least its own.
RECURSIVE InsertDesc(_, _)
InsertDesc(sorted, x) ==
    IF sorted = <<>> THEN <<x>>
    ELSE IF Head(sorted).score >= x.score
         THEN <<Head(sorted)>> \o InsertDesc(Tail(sorted), x)
         ELSE <<x>> \o sorted

RECURSIVE SortLoop(_, _, _)
SortLoop(s, i, sorted) ==
    IF i > Len(s) THEN sorted
    ELSE SortLoop(s, i + 1, InsertDesc(sorted, s[i]))

SortByScoreDesc(s) == SortLoop(s, 1, <<>>)

\* Variant of CapReached: the loop ends one place late.
CapReached_Late(top) == Len(top) > TopN

\* The check that ends the deduplication loop.
CapReached(top) == Len(top) >= TopN

\* Variant of DedupLoop: the names seen are not recorded.
RECURSIVE DedupLoop_NoSeen(_, _, _, _)
DedupLoop_NoSeen(s, i, seen, top) ==
    IF i > Len(s) THEN top
    ELSE LET top2 == IF s[i].name \notin seen THEN Append(top, s[i]) ELSE top
         IN  IF CapReached(top2) THEN top2
             ELSE DedupLoop_NoSeen(s, i + 1, seen, top2)

\* The deduplication loop, from the i-th scored place on.
RECURSIVE DedupLoop(_, _, _, _)
DedupLoop(s, i, seen, top) ==
    IF i > Len(s) THEN top
    ELSE LET place == s[i]
             top2 == IF place.name \notin seen THEN Append(top, place) ELSE top
         IN  IF CapReached(top2) THEN top2
             ELSE DedupLoop(s, i + 1, seen \cup {place.name}, top2)

Scored(ps, preferences) == SortByScoreDesc(ScoreLoop(ps, 1, preferences))

find_best_restaurants(ps, preferences) ==
    DedupLoop(Scored(ps, preferences), 1, {}, <<>>)

-----------------------------------------------------------------------------
(* The inputs of the ranker. *)

PrefWords == {"spicy", "hotpot", "cheap"}

\* The tags of an element: name and cuisine are each present or missing.
TagSets ==
    {[cuisine |-> "Sichuan;noodle"],
     [name |-> "Sichuan Spicy"],
     [name |-> "Sichuan Spicy", cuisine |-> "Sichuan;noodle"],
     [name |-> "Hot Pot Inn"],
     [name |-> "Haidilao Hot Pot"]}

\* Lists of n elements; the i-th element lies at latitude i.
ElementLists(n) ==
    {[i \in 1..n |-> [tags |-> ts[i], lat |-> i]] : ts \in [1..n -> TagSets]}

SeqsUpTo(S, n) == UNION {[1..k -> S] : k \in 0..n}

NoText == "-"

IdleSan == text = NoText /\ out = NoText /\ san_pc = "idle"
\* No call of executor.invoke was made.
NoOutcome == [kind |-> "none"]

IdleApi ==
    /\ patched = FALSE /\ query = NoText /\ verbose = FALSE
    /\ invoked = NoOutcome
    /\ status = 0 /\ response = <<>>
IdleRank ==
    /\ places = <<>> /\ prefs = <<>> /\ scored = <<>> /\ top_results = <<>>
    /\ pc = "idle"
IdleEmail ==
    /\ to_email = NoText /\ email_pc = "idle" /\ plan_output = NoText
    /\ email_tasks = <<>>
IdleMw ==
    /\ inbound = <<>> /\ mw_pc = <<>> /\ request_id = <<>> /\ token = <<>>
    /\ request_id_ctx = <<>> /\ downstream = <<>> /\ sent = <<>>
    /\ records = <<>>
IdleTool ==
    /\ tool_name = NoText /\ api_key = NoText /\ api_reply = NoOutcome
    /\ tool_result = NoOutcome
\* No executor was built yet.
NoExecutor == [key |-> None, executor |-> 0]

IdleCb ==
    /\ cache = NoExecutor /\ run_verbose = <<>> /\ run_pc = <<>>
    /\ executor = <<>> /\ tool_runs = <<>> /\ starts = <<>>
IdleSearch == overpass_reply = NoOutcome /\ found = NoOutcome
IdleExt == IdleEmail /\ IdleMw /\ IdleTool /\ IdleCb /\ IdleSearch

-----------------------------------------------------------------------------
(* The ranker as a state machine: one action per call. *)

Init ==
    /\ places \in UNION {ElementLists(n) : n \in 0..MaxPlaces}
    /\ prefs \in SeqsUpTo(PrefWords, MaxPrefs - 1)
    /\ scored = <<>>
    /\ top_results = <<>>
    /\ pc = "start"
    /\ IdleSan
    /\ IdleApi
    /\ IdleExt

\* find_best_restaurants(..., preferences=prefs) on the elements of places.
Rank ==
    /\ pc = "start"
    /\ scored' = Scored(places, prefs)
    /\ top_results' = DedupLoop(scored', 1, {}, <<>>)
    /\ pc' = "ranked"
    /\ UNCHANGED <<places, prefs, sanVars, apiVars, extVars>>

\* The same search ranked again with one more preference keyword.
RankWithAddedPreference(p) ==
    /\ pc \in {"ranked", "reranked"}
    /\ Len(prefs) < MaxPrefs
    /\ prefs' = Append(prefs, p)
    /\ scored' = Scored(places, prefs')
    /\ top_results' = DedupLoop(scored', 1, {}, <<>>)
    /\ pc' = "reranked"
    /\ UNCHANGED <<places, sanVars, apiVars, extVars>>

\* A returned place as an element of a search result again.
AsElement(place) ==
    [tags |-> [name |-> place.name, cuisine |-> place.cuisine], lat |-> place.lat]

\* The returned list ranked again with the same preferences.
RankOutputAgain ==
    /\ pc \in {"ranked", "reranked"}
    /\ places' = [i \in 1..Len(top_results) |-> AsElement(top_results[i])]
    /\ scored' = Scored(places', prefs)
    /\ top_results' = DedupLoop(scored', 1, {}, <<>>)
    /\ pc' = "refed"
    /\ UNCHANGED <<prefs, sanVars, apiVars, extVars>>

Next ==
    \/ Rank
    \/ \E p \in PrefWords : RankWithAddedPreference(p)
    \/ RankOutputAgain

Spec == Init /\ [][Next]_vars

-----------------------------------------------------------------------------
(* The ranker on searches that return more places than it keeps. *)

CapName(i) == "Cafe " \o ToString(i)

\* The i-th element has a name of its own, or repeats the name of the element
\* before it with a cuisine of two values.
CapTags(i, repeat) ==
    IF repeat /\ i > 1
    THEN [name |-> CapName(i - 1), cuisine |-> "thai;lao"]
    ELSE [name |-> CapName(i)]

InitCap ==
    /\ places \in UNION {
           {[i \in 1..n |-> [tags |-> CapTags(i, rep[i]), lat |-> i]] :
                rep \in [1..n -> BOOLEAN]} : n \in 0..MaxCapPlaces}
    /\ prefs = <<>>
    /\ scored = <<>>
    /\ top_results = <<>>
    /\ pc = "start"
    /\ IdleSan
    /\ IdleApi
    /\ IdleExt

NextCap ==
    \/ Rank
    \/ RankOutputAgain

SpecCap == InitCap /\ [][NextCap]_vars

-----------------------------------------------------------------------------
(* agent.py: _enforce_one_shot_output. *)

\* The index of the first line break of s, 0 when it has none.
FirstBreak(s) ==
    IF Contains(s, "\n")
    THEN CHOOSE i \in 1..Len(s) :
             /\ CharAt(s, i) = "\n"
             /\ ~Contains(SubSeq(s, 1, i - 1), "\n")
    ELSE 0

\* s.splitlines(): the lines of s without their line breaks; a line break
\* that ends s opens no further line.
RECURSIVE SplitLines(_)
SplitLines(s) ==
    IF s = "" THEN <<>>
    ELSE IF FirstBreak(s) = 0 THEN <<s>>
    ELSE <<SubSeq(s, 1, FirstBreak(s) - 1)>>
         \o SplitLines(SubSeq(s, FirstBreak(s) + 1, Len(s)))

\* "\n".join(lines)
RECURSIVE JoinLines(_)
JoinLines(lines) ==
    IF lines = <<>> THEN ""
    ELSE IF Len(lines) = 1 THEN lines[1]
    ELSE lines[1] \o "\n" \o JoinLines(Tail(lines))

\* [ln.rstrip() for ln in lines]
RStripEach(lines) == [i \in 1..Len(lines) |-> RStrip(lines[i])]

\* while lines and not lines[-1].strip(): lines.pop()
RECURSIVE DropEmptyTail(_)
DropEmptyTail(lines) ==
    IF lines # <<>> /\ Strip(lines[Len(lines)]) = ""
    THEN DropEmptyTail(SubSeq(lines, 1, Len(lines) - 1))
    ELSE lines

\* while lines and lines[-1].strip().endswith("?"): lines.pop()
RECURSIVE DropQuestionTail(_)
DropQuestionTail(lines) ==
    IF lines # <<>> /\ EndsWith(Strip(lines[Len(lines)]), "?")
    THEN DropQuestionTail(SubSeq(lines, 1, Len(lines) - 1))
    ELSE lines

\* Variant of ReSubFinalQuestion: the substitution is left out.
ReSubFinalQuestion_Skipped(s) == s

\* re.sub(r"\?\s*$", ".", s): the question mark that only white space
\* follows, and that white space, become one period.
ReSubFinalQuestion(s) ==
    LET ends == {i \in 1..Len(s) :
                    /\ CharAt(s, i) = "?"
                    /\ \A j \in (i + 1)..Len(s) : IsSpace(CharAt(s, j))}
    IN  IF ends = {} THEN s
        ELSE SubSeq(s, 1, (CHOOSE i \in ends : TRUE) - 1) \o "."

\* Variant of ReplaceQuestionMarks: s.replace("?", ".", 1).
RECURSIVE ReplaceQuestionMarks_Once(_)
ReplaceQuestionMarks_Once(s) ==
    IF s = "" THEN ""
    ELSE IF CharAt(s, 1) = "?" THEN "." \o SubSeq(s, 2, Len(s))
    ELSE CharAt(s, 1) \o ReplaceQuestionMarks_Once(SubSeq(s, 2, Len(s)))

\* s.replace("?", ".")
RECURSIVE ReplaceQuestionMarks(_)
ReplaceQuestionMarks(s) ==
    IF s = "" THEN ""
    ELSE (IF CharAt(s, 1) = "?" THEN "." ELSE CharAt(s, 1))
         \o ReplaceQuestionMarks(SubSeq(s, 2, Len(s)))

\* The text returned when nothing is left of the agent's text.
DefaultPlanMessage ==
    "Assumptions: I used reasonable defaults (balanced pace, mid-range budget, and nearby options) and provided a complete weekend plan in one message."

\* The notice appended to a text in which question marks were replaced; the
\* en dash of "5-8 km" is written as a hyphen.
AssumptionsNotice ==
    "\n\nAssumptions used: balanced pace, mid-range budget, within ~5-8 km of city center; please check showtimes/reservation availability in your preferred apps."

\* out after the lines were stripped, cut at the tail and joined again.
RemainingText(t) ==
    Strip(JoinLines(DropQuestionTail(DropEmptyTail(RStripEach(SplitLines(t))))))

\* The function without the default message for a text of which nothing
\* remains.
_enforce_one_shot_output_NoDefault(t) ==
    IF t = "" THEN t
    ELSE LET out0 == RemainingText(t)
             out1 == IF EndsWith(out0, "?") THEN ReSubFinalQuestion(out0) ELSE out0
         IN  IF Contains(out1, "?")
             THEN ReplaceQuestionMarks(out1) \o AssumptionsNotice
             ELSE out1

_enforce_one_shot_output(t) ==
    IF t = "" THEN t
    ELSE LET out0 == RemainingText(t)
             out1 == IF EndsWith(out0, "?") THEN ReSubFinalQuestion(out0) ELSE out0
         IN  IF out0 = "" THEN DefaultPlanMessage
             ELSE IF Contains(out1, "?")
                  THEN ReplaceQuestionMarks(out1) \o AssumptionsNotice
                  ELSE out1

\* The characters of the texts of the model.
Alphabet == {"a", "?", " ", "\n"}

\* The texts of at most n characters.
RECURSIVE Texts(_)
Texts(n) ==
    IF n = 0 THEN {""}
    ELSE Texts(n - 1) \cup {t \o c : t \in Texts(n - 1), c \in Alphabet}

InitSan ==
    /\ text \in Texts(MaxTextLen)
    /\ out = NoText
    /\ san_pc = "input"
    /\ IdleRank
    /\ IdleApi
    /\ IdleExt

\* The call _enforce_one_shot_output(text).
Enforce ==
    /\ san_pc = "input"
    /\ out' = _enforce_one_shot_output(text)
    /\ san_pc' = "done"
    /\ UNCHANGED <<text, rankVars, apiVars, extVars>>

NextSan == Enforce

SpecSan == InitSan /\ [][NextSan]_vars

-----------------------------------------------------------------------------
(* agent.py: run_weekend_planner, and main.py: the POST /agent handler. *)

\* What a call ends in: a returned dict, a returned value that is no dict,
\* or a raised exception.
Returned(d) == [kind |-> "dict", value |-> d]
ReturnedOther == [kind |-> "other"]
Raised(e) == [kind |-> "raise", exc |-> e]

Exceptions == {"ValueError", "UpstreamLLMTimeoutError", "Exception"}

\* An output that is a non-empty list of content blocks and no str (the
\* shape chat models with typed content return); like None it stands where
\* a str may stand.
Blocks == "<list>"
IsStr(x) == x \notin {None, Blocks}

\* What executor.invoke, or the stub a test puts in the place of
\* run_weekend_planner, may end in.
Outcomes ==
    {Returned([output |-> t]) : t \in Texts(MaxAgentTextLen)}
    \cup {Returned([steps |-> ""]), Returned([output |-> Blocks]), ReturnedOther}
    \cup {Raised(e) : e \in Exceptions}

\* run_weekend_planner(q), where executor.invoke ends in invoke.
run_weekend_planner(q, invoke) ==
    IF q = "" \/ Strip(q) = "" THEN Raised("ValueError")
    ELSE IF /\ invoke.kind = "dict"
            /\ "output" \in DOMAIN invoke.value
            /\ IsStr(invoke.value.output)
         THEN Returned([invoke.value EXCEPT
                          !["output"] = _enforce_one_shot_output(@)])
         ELSE invoke

\* agent_plan(req): the status of the response and the body of a 200.
\* unhandled tells that the handler was left by an exception that is no
\* HTTPException: AgentResponse(output=...) rejects an output that is no str
\* (main.py:103, outside the try), and the 500 is then the server's own.
agent_plan(q, v, isPatched, outcome) ==
    LET result == IF isPatched THEN outcome ELSE run_weekend_planner(q, outcome)
        output == IF result.kind = "dict"
                  THEN Get(result.value, "output", None) ELSE None
    IN  IF Len(q) < 1 THEN [status |-> 422, body |-> <<>>, unhandled |-> FALSE]
        ELSE IF result.kind = "raise"
             THEN [status |-> CASE result.exc = "ValueError" -> 422
                                [] result.exc = "UpstreamLLMTimeoutError" -> 504
                                [] OTHER -> 500,
                   body |-> <<>>, unhandled |-> FALSE]
        ELSE IF output = None \/ output = ""
             THEN [status |-> 500, body |-> <<>>, unhandled |-> FALSE]
        ELSE IF ~IsStr(output)
             THEN [status |-> 500, body |-> <<>>, unhandled |-> TRUE]
        ELSE [status |-> 200,
              body |-> [output |-> output,
                        raw |-> IF v THEN result.value ELSE None],
              unhandled |-> FALSE]

Queries == {"", " ", "Plan my weekend"}

InitApi ==
    /\ patched \in BOOLEAN
    /\ query \in Queries
    /\ verbose \in BOOLEAN
    /\ invoked = NoOutcome
    /\ status = 0
    /\ response = <<>>
    /\ IdleRank
    /\ IdleSan
    /\ IdleExt

\* One POST /agent request, from its validation to its response.
AgentPlan ==
    /\ status = 0
    /\ \E outcome \in Outcomes :
          LET r == agent_plan(query, verbose, patched, outcome)
          IN  /\ invoked' = outcome
              /\ status' = r.status
              /\ response' = r.body
    /\ UNCHANGED <<patched, query, verbose, rankVars, sanVars, extVars>>

NextApi == AgentPlan

SpecApi == InitApi /\ [][NextApi]_vars

-----------------------------------------------------------------------------
(* main.py: the POST /agent/email handler, one action per step. *)

\* EmailStr accepts an address with a local part, an "@" and a domain.
ValidEmail(e) ==
    \E i \in 2..(Len(e) - 1) :
        /\ CharAt(e, i) = "@"
        /\ \A j \in 1..Len(e) : j # i => CharAt(e, j) \notin {"@", " "}

Emails == {"ann@example.com", "ann.example.com"}

\* The handler without the check of main.py:127-129.
agent_plan_email_NoShapeCheck(q, email, isPatched, outcome) ==
    LET result == IF isPatched THEN outcome ELSE run_weekend_planner(q, outcome)
        output == IF result.kind = "dict"
                  THEN Get(result.value, "output", None) ELSE None
    IN  IF Len(q) < 1 \/ ~ValidEmail(email) THEN [status |-> 422, output |-> None]
        ELSE IF result.kind = "raise"
             THEN [status |-> CASE result.exc = "ValueError" -> 422
                                [] result.exc = "UpstreamLLMTimeoutError" -> 504
                                [] OTHER -> 500,
                   output |-> None]
        ELSE [status |-> 0, output |-> output]

\* agent_plan_email(req) up to its check of the output (main.py:112-129):
\* the status of an error response, or 0 and the output to send.
agent_plan_email(q, email, isPatched, outcome) ==
    LET result == IF isPatched THEN outcome ELSE run_weekend_planner(q, outcome)
        output == IF result.kind = "dict"
                  THEN Get(result.value, "output", None) ELSE None
    IN  IF Len(q) < 1 \/ ~ValidEmail(email) THEN [status |-> 422, output |-> None]
        ELSE IF result.kind = "raise"
             THEN [status |-> CASE result.exc = "ValueError" -> 422
                                [] result.exc = "UpstreamLLMTimeoutError" -> 504
                                [] OTHER -> 500,
                   output |-> None]
        ELSE IF output = None \/ output = ""
             THEN [status |-> 500, output |-> None]
        ELSE [status |-> 0, output |-> output]

\* background_tasks.add_task(send_email, ...).
add_task(tasks, kwargs) == Append(tasks, kwargs)

InitEmail ==
    /\ patched \in BOOLEAN
    /\ query \in Queries
    /\ verbose = FALSE
    /\ to_email \in Emails
    /\ invoked = NoOutcome
    /\ status = 0
    /\ response = <<>>
    /\ email_pc = "start"
    /\ plan_output = NoText
    /\ email_tasks = <<>>
    /\ IdleRank
    /\ IdleSan
    /\ IdleMw
    /\ IdleTool
    /\ IdleCb
    /\ IdleSearch

\* Validation of the request and plan generation (main.py:107-129).
EmailGenerate ==
    /\ email_pc = "start"
    /\ \E outcome \in Outcomes :
          LET g == agent_plan_email(query, to_email, patched, outcome)
          IN  /\ invoked' = outcome
              /\ plan_output' = g.output
              /\ status' = g.status
              /\ email_pc' = IF g.status = 0 THEN "generated" ELSE "done"
    /\ UNCHANGED <<patched, query, verbose, response, to_email, email_tasks,
                   rankVars, sanVars, mwVars, toolVars, cbVars, searchVars>>

\* The email task is queued (main.py:131-136).
EmailEnqueue ==
    /\ email_pc = "generated"
    /\ email_tasks' = add_task(email_tasks,
                               [to_email |-> to_email,
                                subject |-> "Your Weekend Plan",
                                markdown_content |-> plan_output])
    /\ email_pc' = "enqueued"
    /\ UNCHANGED <<patched, query, verbose, invoked, status, response,
                   to_email, plan_output, rankVars, sanVars, mwVars, toolVars, cbVars, searchVars>>

\* The handler returns (main.py:138).
EmailRespond ==
    /\ email_pc = "enqueued"
    /\ status' = 200
    /\ response' = [status |-> "success",
                    message |-> "Plan generated and email queued."]
    /\ email_pc' = "done"
    /\ UNCHANGED <<patched, query, verbose, invoked, to_email, plan_output,
                   email_tasks, rankVars, sanVars, mwVars, toolVars, cbVars, searchVars>>

NextEmail ==
    \/ EmailGenerate
    \/ EmailEnqueue
    \/ EmailRespond

SpecEmail == InitEmail /\ [][NextEmail]_vars

-----------------------------------------------------------------------------
(* main.py: the middleware add_request_logging around concurrently served *)
(* requests, and logging_utils.py: request_id_ctx and RequestIdFilter.     *)

\* The requests in flight.  Each is served by a task of its own, and a task
\* runs in its own copy of the context: request_id_ctx[r] is the value of
\* the ContextVar that the code serving r, and its log records, see.
Reqs == 1..NumRequests

\* ContextVar.set and ContextVar.get in the context of task t.
ctx_set(ctx, t, v) == [ctx EXCEPT ![t] = v]
ctx_get(ctx, t) == ctx[t]

\* str(uuid.uuid4()): a fresh identifier for request r.
uuid4(r) == "uuid-" \o ToString(r)

\* The X-Request-ID headers a client may send: none, an empty one, and two
\* values.
InboundIds == {None, "", "client-a", "client-b"}

\* request.headers.get("X-Request-ID") or str(uuid.uuid4()).
RequestIdOf(header, r) == IF header \in {None, ""} THEN uuid4(r) ELSE header

\* RequestIdFilter.filter: the request_id a log record is stamped with.
RequestIdFilter(ctx, t) ==
    IF ctx_get(ctx, t) \in {None, ""} THEN "-" ELSE ctx_get(ctx, t)

\* What the handlers below the middleware end in: a response with a status,
\* or an exception that no handler below turned into a response.
HandlerResults ==
    {[status |-> a.status, unhandled |-> a.unhandled] :
        a \in {agent_plan(q, FALSE, p, o) :
                  q \in Queries, p \in BOOLEAN, o \in Outcomes}}

NoResponse == [status |-> 0, headers |-> <<>>]

\* The finally clause left out: the value of request_id_ctx after the
\* request.
ctx_reset_Skipped(ctx, t, old) == ctx

\* request_id_ctx.reset(token) in the context of task t.
ctx_reset(ctx, t, old) == [ctx EXCEPT ![t] = old]

InitMw ==
    /\ inbound \in [Reqs -> InboundIds]
    /\ mw_pc = [r \in Reqs |-> "new"]
    /\ request_id = [r \in Reqs |-> None]
    /\ token = [r \in Reqs |-> None]
    /\ request_id_ctx = [r \in Reqs |-> None]
    /\ downstream = [r \in Reqs |-> NoResponse]
    /\ sent = [r \in Reqs |-> NoResponse]
    /\ records = [r \in Reqs |-> {}]
    /\ IdleRank
    /\ IdleSan
    /\ IdleApi
    /\ IdleEmail
    /\ IdleTool
    /\ IdleCb
    /\ IdleSearch

\* main.py:38-42: the id is chosen and set, "request start" is logged.
MwEnter(r) ==
    /\ mw_pc[r] = "new"
    /\ LET id == RequestIdOf(inbound[r], r)
           ctx == ctx_set(request_id_ctx, r, id)
       IN  /\ request_id' = [request_id EXCEPT ![r] = id]
           /\ token' = [token EXCEPT ![r] = ctx_get(request_id_ctx, r)]
           /\ request_id_ctx' = ctx
           /\ records' = [records EXCEPT ![r] = @ \cup
                 {[msg |-> "request start", request_id |-> RequestIdFilter(ctx, r)]}]
    /\ mw_pc' = [mw_pc EXCEPT ![r] = "called"]
    /\ UNCHANGED <<inbound, downstream, sent, rankVars, sanVars, apiVars,
                   emailVars, toolVars, cbVars, searchVars>>

\* main.py:43: call_next runs the handler, which logs (main.py:78) and ends
\* in a response or in an exception.
MwCallNext(r) ==
    /\ mw_pc[r] = "called"
    /\ \E h \in HandlerResults :
          /\ downstream' = [downstream EXCEPT ![r] =
                IF h.unhandled THEN [status |-> 0, headers |-> <<>>]
                ELSE [status |-> h.status, headers |-> <<>>]]
          /\ mw_pc' = [mw_pc EXCEPT ![r] =
                IF h.unhandled THEN "raised" ELSE "returned"]
    /\ records' = [records EXCEPT ![r] = @ \cup
          {[msg |-> "agent start", request_id |-> RequestIdFilter(request_id_ctx, r)]}]
    /\ UNCHANGED <<inbound, request_id, token, request_id_ctx, sent, rankVars,
                   sanVars, apiVars, emailVars, toolVars, cbVars, searchVars>>

\* main.py:44-55: call_next returned; "request end" is logged, the header is
\* set, the response is returned and the finally clause resets the variable.
MwReturn(r) ==
    /\ mw_pc[r] = "returned"
    /\ records' = [records EXCEPT ![r] = @ \cup
          {[msg |-> "request end", request_id |-> RequestIdFilter(request_id_ctx, r)]}]
    /\ sent' = [sent EXCEPT ![r] =
          [downstream[r] EXCEPT !.headers = [X_Request_ID |-> request_id[r]]]]
    /\ request_id_ctx' = ctx_reset(request_id_ctx, r, token[r])
    /\ mw_pc' = [mw_pc EXCEPT ![r] = "done"]
    /\ UNCHANGED <<inbound, request_id, token, downstream, rankVars, sanVars,
                   apiVars, emailVars, toolVars, cbVars, searchVars>>

\* main.py:43, 54-55: call_next raised; only the finally clause runs, the
\* exception leaves the middleware and the server answers 500 by itself.
MwRaise(r) ==
    /\ mw_pc[r] = "raised"
    /\ sent' = [sent EXCEPT ![r] = [status |-> 500, headers |-> <<>>]]
    /\ request_id_ctx' = ctx_reset(request_id_ctx, r, token[r])
    /\ mw_pc' = [mw_pc EXCEPT ![r] = "done"]
    /\ UNCHANGED <<inbound, request_id, token, downstream, records, rankVars,
                   sanVars, apiVars, emailVars, toolVars, cbVars, searchVars>>

NextMw ==
    \E r \in Reqs :
        \/ MwEnter(r)
        \/ MwCallNext(r)
        \/ MwReturn(r)
        \/ MwRaise(r)

SpecMw == InitMw /\ [][NextMw]_vars

-----------------------------------------------------------------------------
(* tools/weather.py, tools/geocoding.py, tools/movie.py, tools/events.py:  *)
(* one call of a tool around its request to the third-party API.           *)

ToolNames == {"get_weather_onecall", "geocode_city_tool", "discover_movies",
              "discover_events"}

\* os.getenv of a credential: not set, set to the empty string, or set.
ApiKeys == {None, "", "key"}

\* The error statuses raise_for_status raises an HTTPError for.
HttpErrorStatuses == {400, 401, 403, 404, 429, 500, 502, 503}

\* What the request ends in: a network error raised by requests.get, a
\* response with an error status, or a 200 response whose JSON holds data,
\* holds no result, or has not the shape the tool reads.
ApiReplies ==
    {[kind |-> "network", exc |-> e] :
        e \in {"ConnectionError", "Timeout", "SSLError"}}
    \cup {[kind |-> "status", status_code |-> c] : c \in HttpErrorStatuses}
    \cup {[kind |-> "ok", json |-> j] : j \in {"data", "no-results", "malformed"}}

\* The classes of requests.exceptions and the builtin ones an except clause
\* names: isinstance(exc, cls).
IsInstance(exc, cls) ==
    \/ exc = cls
    \/ cls = "Exception"
    \/ cls = "RequestException" /\
          exc \in {"HTTPError", "ConnectionError", "Timeout", "SSLError"}
    \/ cls = "ConnectionError" /\ exc = "SSLError"

\* requests.get(...) followed by response.raise_for_status().
requests_get(reply) ==
    CASE reply.kind = "network" -> Raised(reply.exc)
      [] reply.kind = "status" -> Raised("HTTPError")
      [] OTHER -> Returned([json |-> reply.json])

\* get_weather_onecall (weather.py:44-110).
get_weather_onecall(key, reply) ==
    IF key \in {None, ""}
    THEN Returned([error |-> "OPENWEATHERMAP_API_KEY not configured"])
    ELSE LET r == requests_get(reply)
             body == IF r.kind = "raise" THEN r
                     ELSE IF r.value.json = "malformed" THEN Raised("IndexError")
                     ELSE Returned([location |-> "lat,lon",
                                    daily_forecast |-> r.value.json])
         IN  IF body.kind # "raise" THEN body
             ELSE IF IsInstance(body.exc, "HTTPError")
                  THEN Returned([error |-> "OpenWeather One Call API error",
                                 status |-> reply.status_code,
                                 details |-> "response.text"])
             ELSE IF IsInstance(body.exc, "RequestException")
                  THEN Returned([error |-> body.exc])
             ELSE body

\* geocode_city_tool (geocoding.py:33-67); it reads no credential.
geocode_city_tool(key, reply) ==
    LET r == requests_get(reply)
        body == IF r.kind = "raise" THEN r
                ELSE IF r.value.json = "no-results" THEN Returned(<<>>)
                ELSE IF r.value.json = "malformed" THEN Raised("KeyError")
                ELSE Returned([lat |-> "lat", lon |-> "lon",
                               display_name |-> "city"])
    IN  IF body.kind # "raise" THEN body
        ELSE IF IsInstance(body.exc, "Timeout") THEN Returned(<<>>)
        ELSE IF IsInstance(body.exc, "RequestException") THEN Returned(<<>>)
        ELSE body

\* discover_movies without its except clause.
discover_movies_NoExcept(key, reply) ==
    IF key \in {None, ""}
    THEN Returned([error |-> "TMDB_ACCESS_KEY not configured"])
    ELSE LET r == requests_get(reply)
         IN  IF r.kind = "raise" THEN r
             ELSE IF r.value.json = "malformed" THEN Raised("AttributeError")
             ELSE Returned([results |-> r.value.json])

\* discover_movies (movie.py:61-124); the list it returns on success is kept
\* under the key results.
discover_movies(key, reply) ==
    IF key \in {None, ""}
    THEN Returned([error |-> "TMDB_ACCESS_KEY not configured"])
    ELSE LET r == requests_get(reply)
             body == IF r.kind = "raise" THEN r
                     ELSE IF r.value.json = "malformed" THEN Raised("AttributeError")
                     ELSE Returned([results |-> r.value.json])
         IN  IF body.kind # "raise" THEN body
             ELSE IF IsInstance(body.exc, "RequestException")
                  THEN Returned([error |-> body.exc])
             ELSE body

\* discover_events (events.py:17-75).
discover_events(key, reply) ==
    IF key \in {None, ""}
    THEN Returned([error |-> "TICKETMASTER_API_KEY not configured"])
    ELSE LET r == requests_get(reply)
             body == IF r.kind = "raise" THEN r
                     ELSE IF r.value.json = "malformed" THEN Raised("TypeError")
                     ELSE Returned([events |-> r.value.json])
         IN  IF body.kind # "raise" THEN body
             ELSE IF IsInstance(body.exc, "Exception")
                  THEN Returned([error |-> body.exc])
             ELSE body

\* The call the agent makes of the tool of that name.
CallOf(name, key, reply) ==
    CASE name = "get_weather_onecall" -> get_weather_onecall(key, reply)
      [] name = "geocode_city_tool" -> geocode_city_tool(key, reply)
      [] name = "discover_movies" -> discover_movies(key, reply)
      [] name = "discover_events" -> discover_events(key, reply)

InitTool ==
    /\ tool_name \in ToolNames
    /\ api_key \in ApiKeys
    /\ api_reply \in ApiReplies
    /\ tool_result = NoOutcome
    /\ IdleRank
    /\ IdleSan
    /\ IdleApi
    /\ IdleEmail
    /\ IdleMw
    /\ IdleCb
    /\ IdleSearch

\* One call of the tool.
CallTool ==
    /\ tool_result = NoOutcome
    /\ tool_result' = CallOf(tool_name, api_key, api_reply)
    /\ UNCHANGED <<tool_name, api_key, api_reply, rankVars, sanVars, apiVars,
                   emailVars, mwVars, cbVars, searchVars>>

NextTool == CallTool

SpecTool == InitTool /\ [][NextTool]_vars

-----------------------------------------------------------------------------
(* agent.py: get_weekend_planner_executor behind lru_cache(maxsize=1), and *)
(* the ToolLoggingCallbackHandler of the executor, under requests that run *)
(* run_weekend_planner at the same time (main.py:81 runs it in a thread).  *)

\* An executor is named after the request that built it; the run_id of the
\* k-th tool run of request r is <<r, k>>.
RunIds == Reqs \X (1..MaxToolRuns)

\* What a tool run may end in: the kinds of result of the tools.
ToolResultKinds ==
    {CallOf(n, k, rep).kind : n \in ToolNames, k \in ApiKeys, rep \in ApiReplies}

\* The call get_weekend_planner_executor(verbose) finds its key cached.
CacheHit(c, v) == c # NoExecutor /\ c.key = v

\* lru_cache after the wrapped function returned executor e for key v: the
\* result is stored, in the place of the entry of another key (maxsize=1),
\* unless another thread stored the key meanwhile.
CacheStore(c, v, e) == IF CacheHit(c, v) THEN c ELSE [key |-> v, executor |-> e]

\* ToolLoggingCallbackHandler.on_tool_start on the keys of _starts.
on_tool_start(map, run_id) == map \cup {run_id}

\* on_tool_end that empties the map.
on_tool_end_Clear(map, run_id) == {}

\* ToolLoggingCallbackHandler.on_tool_end: self._starts.pop(str(run_id), None).
on_tool_end(map, run_id) == map \ {run_id}

\* ToolLoggingCallbackHandler.on_tool_error: it logs, and leaves _starts.
on_tool_error(map, run_id) == map

InitCb ==
    /\ cache = NoExecutor
    /\ run_verbose \in [Reqs -> BOOLEAN]
    /\ run_pc = [r \in Reqs |-> "new"]
    /\ executor = [r \in Reqs |-> 0]
    /\ tool_runs = [r \in Reqs |-> 0]
    /\ starts = [e \in Reqs |-> {}]
    /\ IdleRank
    /\ IdleSan
    /\ IdleApi
    /\ IdleEmail
    /\ IdleMw
    /\ IdleTool
    /\ IdleSearch

\* agent.py:230: the cache is looked up.
CbLookup(r) ==
    /\ run_pc[r] = "new"
    /\ IF CacheHit(cache, run_verbose[r])
       THEN /\ executor' = [executor EXCEPT ![r] = cache.executor]
            /\ run_pc' = [run_pc EXCEPT ![r] = "ready"]
       ELSE /\ executor' = executor
            /\ run_pc' = [run_pc EXCEPT ![r] = "building"]
    /\ UNCHANGED <<cache, run_verbose, tool_runs, starts, rankVars, sanVars,
                   apiVars, emailVars, mwVars, toolVars,
                   searchVars>>

\* agent.py:142-175: on a miss the executor is built, with a handler of its
\* own, and stored.
CbBuild(r) ==
    /\ run_pc[r] = "building"
    /\ executor' = [executor EXCEPT ![r] = r]
    /\ cache' = CacheStore(cache, run_verbose[r], r)
    /\ run_pc' = [run_pc EXCEPT ![r] = "ready"]
    /\ UNCHANGED <<run_verbose, tool_runs, starts, rankVars, sanVars, apiVars,
                   emailVars, mwVars, toolVars,
                   searchVars>>

\* agent.py:46-62: a tool run of the request starts.
CbToolStart(r) ==
    /\ run_pc[r] = "ready"
    /\ tool_runs[r] < MaxToolRuns
    /\ tool_runs' = [tool_runs EXCEPT ![r] = @ + 1]
    /\ starts' = [starts EXCEPT ![executor[r]] =
                     on_tool_start(@, <<r, tool_runs[r] + 1>>)]
    /\ run_pc' = [run_pc EXCEPT ![r] = "tool"]
    /\ UNCHANGED <<cache, run_verbose, executor, rankVars, sanVars, apiVars,
                   emailVars, mwVars, toolVars,
                   searchVars>>

\* agent.py:64-78: the tool returned.
CbToolEnd(r) ==
    /\ run_pc[r] = "tool"
    /\ "dict" \in ToolResultKinds
    /\ starts' = [starts EXCEPT ![executor[r]] =
                     on_tool_end(@, <<r, tool_runs[r]>>)]
    /\ run_pc' = [run_pc EXCEPT ![r] = "ready"]
    /\ UNCHANGED <<cache, run_verbose, executor, tool_runs, rankVars, sanVars,
                   apiVars, emailVars, mwVars, toolVars,
                   searchVars>>

\* agent.py:80-88: the tool raised; the exception ends executor.invoke.
CbToolError(r) ==
    /\ run_pc[r] = "tool"
    /\ "raise" \in ToolResultKinds
    /\ starts' = [starts EXCEPT ![executor[r]] =
                     on_tool_error(@, <<r, tool_runs[r]>>)]
    /\ run_pc' = [run_pc EXCEPT ![r] = "failed"]
    /\ UNCHANGED <<cache, run_verbose, executor, tool_runs, rankVars, sanVars,
                   apiVars, emailVars, mwVars, toolVars,
                   searchVars>>

\* agent.py:232-240: executor.invoke returned the final answer.
CbFinish(r) ==
    /\ run_pc[r] = "ready"
    /\ run_pc' = [run_pc EXCEPT ![r] = "done"]
    /\ UNCHANGED <<cache, run_verbose, executor, tool_runs, starts, rankVars,
                   sanVars, apiVars, emailVars, mwVars, toolVars,
                   searchVars>>

NextCb ==
    \E r \in Reqs :
        \/ CbLookup(r)
        \/ CbBuild(r)
        \/ CbToolStart(r)
        \/ CbToolEnd(r)
        \/ CbToolError(r)
        \/ CbFinish(r)

SpecCb == InitCb /\ [][NextCb]_vars

-----------------------------------------------------------------------------
(* tools/places.py: search_cuisine around its request to the Overpass API, *)
(* and find_best_restaurants on what it returns.                           *)

\* What the request ends in: a network error, a response with an error
\* status, or a 200 response whose JSON holds elements or holds none.
OverpassReplies ==
    {[kind |-> "network", exc |-> e] :
        e \in {"ConnectionError", "Timeout", "SSLError"}}
    \cup {[kind |-> "status", status_code |-> c] : c \in HttpErrorStatuses}
    \cup {[kind |-> "ok", json |-> [elements |-> ps]] :
            ps \in UNION {ElementLists(n) : n \in 0..MaxFound}}
    \cup {[kind |-> "ok", json |-> [remark |-> "runtime error"]]}

\* A returned list.
ReturnedList(l) == [kind |-> "list", value |-> l]

\* search_cuisine without its except clause.
search_cuisine_NoExcept(reply) ==
    LET resp == requests_get(reply)
    IN  IF resp.kind = "raise" THEN resp
        ELSE ReturnedList(Get(resp.value.json, "elements", <<>>))

\* search_cuisine (places.py:14-90): requests.post, raise_for_status and
\* resp.json().get("elements", []) inside the try.
search_cuisine(reply) ==
    LET resp == requests_get(reply)
        body == IF resp.kind = "raise" THEN resp
                ELSE ReturnedList(Get(resp.value.json, "elements", <<>>))
    IN  IF body.kind # "raise" THEN body
        ELSE IF IsInstance(body.exc, "RequestException") THEN ReturnedList(<<>>)
        ELSE body

\* find_best_restaurants (places.py:126-174) from its call of search_cuisine
\* on; an exception that search_cuisine let through would pass on.
FindBest(reply, preferences) ==
    LET ps == search_cuisine(reply)
    IN  IF ps.kind = "raise" THEN ps
        ELSE ReturnedList(find_best_restaurants(ps.value, preferences))

InitSearch ==
    /\ overpass_reply \in OverpassReplies
    /\ found = NoOutcome
    /\ places = <<>>
    /\ prefs \in SeqsUpTo(PrefWords, MaxPrefs - 1)
    /\ scored = <<>>
    /\ top_results = <<>>
    /\ pc = "start"
    /\ IdleSan
    /\ IdleApi
    /\ IdleEmail
    /\ IdleMw
    /\ IdleTool
    /\ IdleCb

\* One call of find_best_restaurants.
Search ==
    /\ pc = "start"
    /\ found = NoOutcome
    /\ found' = FindBest(overpass_reply, prefs)
    /\ places' = (IF search_cuisine(overpass_reply).kind = "list"
                  THEN search_cuisine(overpass_reply).value ELSE places)
    /\ top_results' = (IF found'.kind = "list" THEN found'.value ELSE top_results)
    /\ pc' = "ranked"
    /\ UNCHANGED <<prefs, scored, overpass_reply, sanVars, apiVars, emailVars,
                   mwVars, toolVars, cbVars>>

NextSearch == Search

SpecSearch == InitSearch /\ [][NextSearch]_vars

-----------------------------------------------------------------------------
(* Properties of the ranker. *)

Ranked == pc \in {"ranked", "reranked", "refed"}

HasName(e) == "name" \in DOMAIN e.tags

\* The position in places of the element a returned place was made from;
\* the latitudes of the elements of places differ from each other.
PosOf(r) == CHOOSE i \in 1..Len(places) : places[i].lat = r.lat

\* pref is a key of keyword_map and one of its synonyms occurs in the
\* lower-cased name or cuisine of the tags.
Matches(tags, pref) ==
    /\ pref \in DOMAIN keyword_map
    /\ \E j \in 1..Len(keyword_map[pref]) :
          \/ Contains(Lower(Get(tags, "name", "")), keyword_map[pref][j])
          \/ Contains(Lower(Get(tags, "cuisine", "")), keyword_map[pref][j])

\* C1: no element without a name appears in the list find_best_restaurants
\* returns, whatever its cuisine and however many preferences it matches:
\* every returned place was made from an element that has a name.
C1_NoUnnamedPlace ==
    Ranked =>
        /\ \A k \in 1..Len(top_results) :
              \E i \in 1..Len(places) :
                  /\ places[i].lat = top_results[k].lat
                  /\ HasName(places[i])
                  /\ places[i].tags.name = top_results[k].name
        /\ \A i \in 1..Len(places) :
              ~HasName(places[i]) =>
                  \A k \in 1..Len(top_results) : top_results[k].lat # places[i].lat

\* An element without a name whose cuisine matches every preference was
\* ranked together with elements that have a name.
C1_Witness ==
    /\ pc = "ranked"
    /\ prefs # <<>>
    /\ top_results # <<>>
    /\ \E i \in 1..Len(places) :
          /\ ~HasName(places[i])
          /\ \A j \in 1..Len(prefs) : Matches(places[i].tags, prefs[j])

\* C2: the returned list is ordered by score descending, and two returned
\* places of equal score stand in the order their elements had in the input.
C2_SortedStable ==
    Ranked =>
        \A k, l \in 1..Len(top_results) :
            k < l =>
                /\ top_results[k].score >= top_results[l].score
                /\ top_results[k].score = top_results[l].score
                       => PosOf(top_results[k]) < PosOf(top_results[l])

\* Two places of equal score were returned behind a place of a higher score
\* that came after them in the input.
C2_Witness ==
    /\ pc = "ranked"
    /\ \E k, l, m \in 1..Len(top_results) :
          /\ k < l /\ l < m
          /\ top_results[k].score > top_results[l].score
          /\ top_results[l].score = top_results[m].score
          /\ PosOf(top_results[k]) > PosOf(top_results[m])

\* C3: the returned list holds at most one place of each name, and that place
\* has the highest score among the input elements of its name, and is the
\* earliest of them in input order when their scores tie.
C3_DedupKeepsBest ==
    Ranked =>
        /\ \A k, l \in 1..Len(top_results) :
              k # l => top_results[k].name # top_results[l].name
        /\ \A k \in 1..Len(top_results) : \A i \in 1..Len(places) :
              (HasName(places[i]) /\ places[i].tags.name = top_results[k].name) =>
                  /\ score_place(places[i].tags, prefs) <= top_results[k].score
                  /\ score_place(places[i].tags, prefs) = top_results[k].score
                         => PosOf(top_results[k]) <= i

\* Two elements of one name were ranked, the later one with the higher score,
\* and a third element of that name tied with the survivor.
C3_Witness ==
    /\ pc = "ranked"
    /\ \E i, j, m \in 1..Len(places) : \E k \in 1..Len(top_results) :
          /\ i < j /\ j < m
          /\ HasName(places[i]) /\ HasName(places[j]) /\ HasName(places[m])
          /\ places[i].tags.name = places[j].tags.name
          /\ places[m].tags.name = places[j].tags.name
          /\ score_place(places[i].tags, prefs) < score_place(places[j].tags, prefs)
          /\ score_place(places[m].tags, prefs) = score_place(places[j].tags, prefs)
          /\ top_results[k].lat = places[j].lat

\* The tags of the element a returned place was made from.
TagsOf(r) == places[PosOf(r)].tags

\* What a place scores without any preference: 1.0 for its name, 0.5 for a
\* cuisine of several values, 2.0 for a brand name.
SignalScore(tags) ==
    (IF "name" \in DOMAIN tags THEN 2 * 1 ELSE 0)
    + (IF \E c \in {";", ","} : Contains(Get(tags, "cuisine", ""), c) THEN 1 ELSE 0)
    + (IF \E b \in {"din tai fung", "haidilao"} :
              Contains(Lower(Get(tags, "name", "")), b) THEN 2 * 2 ELSE 0)

\* The entries of the preference list the tags match.
MatchedPrefs(tags) == {i \in 1..Len(prefs) : Matches(tags, prefs[i])}

\* The pairs of an entry of the preference list and one of its synonyms that
\* occurs in the lower-cased name or cuisine.
MatchedSynonyms(tags) ==
    {ij \in (1..Len(prefs)) \X (1..4) :
        /\ prefs[ij[1]] \in DOMAIN keyword_map
        /\ ij[2] <= Len(keyword_map[prefs[ij[1]]])
        /\ \/ Contains(Lower(Get(tags, "name", "")), keyword_map[prefs[ij[1]]][ij[2]])
           \/ Contains(Lower(Get(tags, "cuisine", "")), keyword_map[prefs[ij[1]]][ij[2]])}

\* C5 as stated: the preference bonus of a place is +1.5 exactly once per
\* preference keyword that matches it, however many of the keyword's synonyms
\* occur, and 0 for keywords absent from the synonym table.
C5_BonusOncePerKeyword ==
    Ranked =>
        \A k \in 1..Len(top_results) :
            top_results[k].score =
                SignalScore(TagsOf(top_results[k]))
                + 3 * Cardinality(MatchedPrefs(TagsOf(top_results[k])))

\* C5 amended: the preference bonus of a place is +1.5 once per pair of a
\* preference list entry and a synonym of it that occurs in the lower-cased
\* name or cuisine, and 0 for entries absent from the synonym table.
C5_BonusPerSynonym ==
    Ranked =>
        \A k \in 1..Len(top_results) :
            top_results[k].score =
                SignalScore(TagsOf(top_results[k]))
                + 3 * Cardinality(MatchedSynonyms(TagsOf(top_results[k])))

\* A returned place matches one preference through two of its synonyms,
\* while another preference of the list is no key of the synonym table.
C5_Witness ==
    /\ Ranked
    /\ \E k \in 1..Len(top_results) : \E i, j \in 1..Len(prefs) :
          /\ prefs[j] \notin DOMAIN keyword_map
          /\ Cardinality({ij \in MatchedSynonyms(TagsOf(top_results[k])) : ij[1] = i}) >= 2

\* The place of list that was made from the element at latitude lat.
IndexOfLat(list, lat) == CHOOSE k \in 1..Len(list) : list[k].lat = lat

\* C6: ranking again with one more preference keyword lowers no place's
\* score, leaves every score non-negative, and a place that matches the new
\* keyword stays above every place that does not match it and that it ranked
\* above before, in the sorted list, and by its name in the returned list.
C6_AddedPreferenceMonotone ==
    [][pc' = "reranked" =>
        LET p == prefs'[Len(prefs')]
        IN  /\ \A k \in 1..Len(scored') : scored'[k].score >= 0
            /\ \A a \in 1..Len(scored) :
                  scored'[IndexOfLat(scored', scored[a].lat)].score >= scored[a].score
            /\ \A a, b \in 1..Len(scored) :
                  (/\ a < b
                   /\ Matches(TagsOf(scored[a]), p)
                   /\ ~Matches(TagsOf(scored[b]), p))
                  => IndexOfLat(scored', scored[a].lat)
                         < IndexOfLat(scored', scored[b].lat)
            /\ \A a, b \in 1..Len(top_results) :
                  (/\ a < b
                   /\ Matches(TagsOf(top_results[a]), p)
                   /\ ~Matches(TagsOf(top_results[b]), p)
                   /\ \E l \in 1..Len(top_results') :
                          top_results'[l].lat = top_results[b].lat)
                  => \E k \in 1..Len(top_results') :
                         /\ top_results'[k].name = top_results[a].name
                         /\ k < IndexOfLat(top_results', top_results[b].lat)
    ]_vars

\* The score of tags under the preference list without its last entry.
ScoreBefore(tags) == score_place(tags, SubSeq(prefs, 1, Len(prefs) - 1))

\* After a preference was added, a place that matches it stands above a place
\* that does not and that it was above before, and a third place that matches
\* it too has overtaken the one that does not.
C6_Witness ==
    /\ pc = "reranked"
    /\ \E a, b, c \in 1..Len(top_results) :
          LET p == prefs[Len(prefs)]
              ta == TagsOf(top_results[a])
              tb == TagsOf(top_results[b])
              tc == TagsOf(top_results[c])
          IN  /\ a < b /\ c < b
              /\ Matches(ta, p) /\ ~Matches(tb, p) /\ Matches(tc, p)
              /\ ScoreBefore(ta) >= ScoreBefore(tb)
              /\ PosOf(top_results[a]) < PosOf(top_results[b])
              /\ ScoreBefore(tc) <= ScoreBefore(tb)
              /\ PosOf(top_results[c]) > PosOf(top_results[b])

InputNames == {places[i].tags.name : i \in {j \in 1..Len(places) : HasName(places[j])}}

\* C4 as stated: the returned list has at most k places for every limit k >= 0
\* a caller may ask for, and none for k = 0.  find_best_restaurants takes no
\* limit, so what it returns is the same for every k.
C4_HonoursLimit ==
    \A k \in 0..TopN : Ranked => Len(top_results) <= k

\* C4 amended: no caller-supplied limit exists; the returned list has at most
\* 10 places, namely one for each name of the input up to the first 10.
C4_AtMostTen ==
    Ranked =>
        /\ Len(top_results) <= 10
        /\ \/ Len(top_results) = 10
           \/ Len(top_results) = Cardinality(InputNames)

\* A search with more than 10 names was ranked and 10 places were returned.
C4_Witness ==
    /\ pc = "ranked"
    /\ Cardinality(InputNames) > 10
    /\ Len(top_results) = 10

-----------------------------------------------------------------------------
(* Properties of the one-shot post-processing and of POST /agent. *)

NoticeAppended == EndsWith(out, AssumptionsNotice)

\* C8: the string _enforce_one_shot_output returns contains no '?'.
C8_NoQuestionMark ==
    san_pc = "done" => ~Contains(out, "?")

\* A text was processed that lost a trailing question line and kept a
\* question mark inside an earlier line.
C8_Witness ==
    /\ san_pc = "done"
    /\ Contains(RemainingText(text), "?")
    /\ Len(RemainingText(text)) < Len(Strip(text))
    /\ out # DefaultPlanMessage

C10_No200WithQuestion ==
    status = 200 => ~Contains(response.output, "?")

\* The output field of the dict run_weekend_planner returns when
\* executor.invoke ended in invoked, None when there is none.
PlannerOutput ==
    IF invoked.kind = "dict" /\ "output" \in DOMAIN invoked.value
    THEN (IF IsStr(invoked.value.output)
          THEN _enforce_one_shot_output(invoked.value.output)
          ELSE invoked.value.output)
    ELSE None

\* C11: the status of POST /agent follows from the outcome of plan
\* generation: 422 when the query is empty or whitespace-only, 504 when the
\* planner raises the upstream-LLM timeout error, 500 on any other exception
\* or when the result has no usable output field, otherwise 200 with the
\* planner's output and raw = null unless verbose was requested.
C11_StatusByOutcome ==
    (status # 0 /\ ~patched) =>
        /\ status =
              IF query = "" \/ Strip(query) = "" THEN 422
              ELSE IF invoked.kind = "raise"
                   THEN (IF invoked.exc = "UpstreamLLMTimeoutError" THEN 504 ELSE 500)
              ELSE IF PlannerOutput \in {None, "", Blocks} THEN 500
              ELSE 200
        /\ status = 200 =>
              /\ response.output = PlannerOutput
              /\ ~verbose => response.raw = None
              /\ verbose => response.raw = [invoked.value EXCEPT !["output"] = PlannerOutput]

\* Plan generation of the email handler ended in a non-empty output.
EmailPlanSucceeded ==
    /\ email_pc \in {"generated", "enqueued", "done"}
    /\ status \in {0, 200}
    /\ plan_output \notin {None, "", NoText}

\* C12: for POST /agent/email the email task is enqueued exactly once, and
\* only after plan generation completed with a non-empty output; when the
\* request ends in 422, 504 or 500 no task is enqueued, and the success
\* response is never returned without the task having been enqueued.
C12_EnqueuedOnceAfterPlan ==
    /\ Len(email_tasks) <= 1
    /\ email_tasks # <<>> =>
          /\ EmailPlanSucceeded
          /\ email_pc \in {"enqueued", "done"}
          /\ email_tasks[1].markdown_content = plan_output
          /\ email_tasks[1].to_email = to_email
    /\ status \in {422, 500, 504} => email_tasks = <<>>
    /\ status = 200 => Len(email_tasks) = 1
    /\ email_pc = "done" => (status = 200 <=> Len(email_tasks) = 1)

C12_Witness ==
    /\ email_pc = "done"
    /\ status = 200
    /\ Len(email_tasks) = 1
    /\ email_tasks[1].markdown_content # ""

\* C13: every HTTP response carries an X-Request-ID header equal to the
\* inbound X-Request-ID when one was supplied and to a freshly generated
\* identifier otherwise, and while a request is handled, also next to other
\* requests, the correlation id its log records see is that identifier.
C13_ResponseCarriesRequestId ==
    \A r \in Reqs :
        /\ sent[r].status # 0 =>
              /\ "X_Request_ID" \in DOMAIN sent[r].headers
              /\ sent[r].headers.X_Request_ID =
                    (IF inbound[r] \in {None, ""} THEN uuid4(r) ELSE inbound[r])
        /\ \A rec \in records[r] :
              rec.request_id =
                    (IF inbound[r] \in {None, ""} THEN uuid4(r) ELSE inbound[r])

\* C19: when the middleware has finished a request, whether the handler
\* below returned a response or raised, request_id_ctx holds again the value
\* it held before the request started.
C19_ContextRestored ==
    \A r \in Reqs :
        mw_pc[r] = "done" =>
            /\ ctx_get(request_id_ctx, r) = token[r]
            /\ token[r] = None

C19_Witness ==
    \E r1, r2 \in Reqs :
        /\ mw_pc[r1] = "done" /\ downstream[r1].status = 0 /\ sent[r1].status = 500
        /\ mw_pc[r2] = "done" /\ downstream[r2].status = 200
        /\ request_id[r1] # None /\ request_id[r2] # None

\* The credential a tool reads is missing.
MissingCredential == tool_name # "geocode_city_tool" /\ api_key \in {None, ""}

\* The call of the third-party API failed: by a network error, by an HTTP
\* error status, or for want of the credential.
ApiCallFailed == MissingCredential \/ api_reply.kind \in {"network", "status"}

\* C14: when a tool's call of its third-party API fails (network error, HTTP
\* error status or missing credential), the tool (weather, geocoding, movie,
\* events) returns a value that carries the error in-band, a dict with an
\* error key or an empty dict, and never raises.
C14_ToolFailureInBand ==
    (tool_result # NoOutcome /\ ApiCallFailed) =>
        /\ tool_result.kind = "dict"
        /\ \/ tool_result.value = <<>>
           \/ "error" \in DOMAIN tool_result.value

C14_Witness ==
    /\ tool_result # NoOutcome
    /\ tool_name = "discover_movies"
    /\ ~MissingCredential
    /\ api_reply.kind = "network"
    /\ tool_result.kind = "dict"

\* Request r is being handled and holds an executor.
InFlight(r) == run_pc[r] \in {"ready", "tool"}

\* C15: no two concurrently handled requests share in-process mutable
\* state: nothing written while serving one request, the cached agent
\* executor and its tool-logging handler's start-time map included, is read
\* or written while serving another.
C15_NoSharedState ==
    \A r1, r2 \in Reqs :
        (r1 # r2 /\ InFlight(r1) /\ InFlight(r2)) => executor[r1] # executor[r2]

\* C15, amended: requests share the cached executor and its handler's
\* _starts map; within the map an entry is added and removed only by the
\* request whose tool run it belongs to.
C15_EntriesTouchedByOwner ==
    [][\A e \in Reqs :
         \A id \in (starts[e] \ starts'[e]) \cup (starts'[e] \ starts[e]) :
             /\ run_pc'[id[1]] # run_pc[id[1]]
             /\ executor[id[1]] = e
             /\ tool_runs'[id[1]] = id[2]]_vars

C15_Witness ==
    \E r1, r2 \in Reqs :
        /\ r1 # r2
        /\ run_pc[r1] = "tool" /\ run_pc[r2] = "tool"
        /\ executor[r1] = executor[r2]
        /\ {<<r1, tool_runs[r1]>>, <<r2, tool_runs[r2]>>} \subseteq starts[executor[r1]]

\* C18: after any sequence of tool callbacks _starts holds entries only for
\* runs still in flight: every run_id recorded by on_tool_start is removed
\* once its run has finished, through on_tool_end or through on_tool_error.
C18_StartsOnlyInFlight ==
    \A e \in Reqs :
        \A id \in starts[e] :
            run_pc[id[1]] = "tool" /\ tool_runs[id[1]] = id[2]

\* C16: when the places-search request fails in transport (a network error
\* or an HTTP error status), find_best_restaurants treats it as zero
\* candidates and returns an empty list.
C16_TransportFailureEmpty ==
    (found # NoOutcome /\ overpass_reply.kind \in {"network", "status"}) =>
        /\ found = ReturnedList(<<>>)
        /\ places = <<>>
        /\ top_results = <<>>

C16_Witness ==
    /\ found = ReturnedList(<<>>)
    /\ overpass_reply.kind = "status"
    /\ pc = "ranked"

\* The orders of a list of n entries, and the list s in the order f.
Orders(n) == {f \in [1..n -> 1..n] : \A i, j \in 1..n : f[i] = f[j] => i = j}
Reordered(s, f) == [i \in 1..Len(s) |-> s[f[i]]]

\* C17: score_place does not depend on the order of the preference list: a
\* place scores the same under every permutation of the preferences.
C17_PreferenceOrderIrrelevant ==
    Ranked =>
        \A k \in 1..Len(top_results) :
            \A f \in Orders(Len(prefs)) :
                score_place(TagsOf(top_results[k]), Reordered(prefs, f))
                    = top_results[k].score

\* A returned place was scored with two preferences of which it matches
\* the second and not the first.
C17_Witness ==
    /\ Ranked
    /\ Len(prefs) = 2
    /\ \E k \in 1..Len(top_results) :
          /\ ~Matches(TagsOf(top_results[k]), prefs[1])
          /\ Matches(TagsOf(top_results[k]), prefs[2])

\* C20: for every non-empty agent output text _enforce_one_shot_output
\* returns a non-empty string, so that post-processing never turns a
\* successful result into the 500 for an unexpected response shape.
C20_NonEmptyStaysNonEmpty ==
    (san_pc = "done" /\ text # "") => (out # "" /\ Len(out) > 0)

\* A text of nothing but a question and white space was replaced by the
\* default message.
C20_Witness ==
    /\ san_pc = "done"
    /\ Contains(text, "?")
    /\ ~Contains(text, "a")
    /\ out = DefaultPlanMessage

====
